---- MODULE Spec2Model ----
(***************************************************************************)
(* LiveMapBox: a React component that owns one Mapbox map, loads the       *)
(* generated routes once the map is ready, places markers, asks the        *)
(* directions service for one line per route and lets the user select a    *)
(* route in the sidebar.                                                   *)
(*                                                                         *)
(* JavaScript runs each handler to completion, so every handler (effect,   *)
(* cleanup, the continuation after an await, a click) is one action.  The  *)
(* awaits are the only places where other handlers interleave.             *)
(***************************************************************************)
EXTENDS Integers, Sequences, FiniteSets, TLC

\* ------------------------------------------------------------------ bounds
\* Number of map instances the component may create (mount + prop changes).
MaxMaps == 2
\* ------------------------------------------------------------ environment
\* mapInstanceRef.current === null
NoMap == 0
\* activeRouteId === null
Null == -1
\* Map instances are numbered in creation order.
MapIds == 1..MaxMaps

\* A coordinate is the array found in the payload; its components are opaque
\* except for "NaN", which stands for a component isNaN() is true of.
NaN == "NaN"
\* stops[0] of an empty stop list
Undefined == <<>>

Stop(id, loc, walk) == [student_id |-> id, location |-> loc, requires_walk |-> walk]
Route(stops) == [stops |-> stops]

\* Two routes of 3 and 2 stops, one stop walk-required.
PayloadTwoRoutes ==
  << Route(<< Stop(1, <<"a1", "b1">>, FALSE), Stop(2, <<"a2", "b2">>, TRUE),
              Stop(3, <<"a3", "b3">>, FALSE) >>),
     Route(<< Stop(4, <<"a4", "b4">>, FALSE), Stop(5, <<"a5", "b5">>, FALSE) >>) >>
\* One route whose second stop has a NaN component, and a second route.
PayloadNaNStop ==
  << Route(<< Stop(1, <<"a1", "b1">>, TRUE), Stop(2, <<NaN, "12.3">>, FALSE),
              Stop(3, <<"a3", "b3">>, TRUE) >>),
     Route(<< Stop(4, <<"a4", "b4">>, FALSE) >>) >>
\* One route whose second stop is a three-element array.
PayloadTripleStop ==
  << Route(<< Stop(1, <<"a1", "b1">>, FALSE), Stop(2, <<"a2", "b2", "c2">>, TRUE),
              Stop(3, <<"a3", "b3">>, FALSE) >>) >>
\* A route with stops followed by a route without any.
PayloadEmptyRoute ==
  << Route(<< Stop(1, <<"a1", "b1">>, FALSE) >>), Route(<< >>) >>
\* data.data === []
PayloadNoRoutes == << >>

Payloads == { PayloadTwoRoutes, PayloadNaNStop, PayloadTripleStop,
              PayloadEmptyRoute, PayloadNoRoutes }

\* What the route endpoint can answer: the transport works or not, and the
\* body carries a truthy success flag and an array payload or not.
Responses ==
  { [net |-> FALSE, success |-> FALSE, isArray |-> FALSE, data |-> << >>] }
  \cup { [net |-> TRUE, success |-> TRUE, isArray |-> FALSE, data |-> << >>] }
  \cup { [net |-> TRUE, success |-> FALSE, isArray |-> TRUE, data |-> PayloadTwoRoutes] }
  \cup { [net |-> TRUE, success |-> TRUE, isArray |-> TRUE, data |-> p] : p \in Payloads }

\* What the directions endpoint can answer for one route.
DirectionsOutcomes == { "ok", "empty", "fail" }

\* -------------------------------------------------------- pure functions
colors == << "#FF0000", "#0000FF", "#00FF00", "#FF00FF", "#00FFFF" >>

\* getRouteColor ignoring its index
getRouteColorFirst(index) == colors[1]
\* colors[index % colors.length]
getRouteColor(index) == colors[(index % Len(colors)) + 1]

\* line-width of a route layer
LineWidth == 4

\* The format check without its test of data.success
FormatOKNoSuccessCheck(resp) == resp.net /\ resp.isArray
\* The fetch and response.json() resolved, and
\* !data.success || !Array.isArray(data.data) is false.
FormatOK(resp) == resp.net /\ resp.success /\ resp.isArray

\* The stop loop's test on stop.location: an array (every location here is
\* one) of length 2 whose components isNaN() is false of.
IsValidLocation(loc) ==
  /\ Len(loc) = 2
  /\ loc[1] # NaN
  /\ loc[2] # NaN

\* mapboxgl.LngLat.convert, which setLngLat and LngLatBounds.extend call on
\* their argument: it takes an array of two or three elements (a third is
\* read as an altitude and ignored) and throws on anything else, and on a
\* longitude or latitude that is NaN.
LngLatThrows(loc) ==
  \/ Len(loc) < 2
  \/ Len(loc) > 3
  \/ loc[1] = NaN
  \/ loc[2] = NaN

RECURSIVE FlatStops(_)
\* Every stop of every route, in route order then stop order.
FlatStops(rs) ==
  IF rs = << >> THEN << >> ELSE Head(rs).stops \o FlatStops(Tail(rs))

RequiresWalk(stop) == stop.requires_walk
\* allStudentsRequiringWalk after the data.data.map loop
WalkingStops(rs) == SelectSeq(FlatStops(rs), RequiresWalk)
\* allStudentLocations after the data.data.map loop
HomeLocations(rs) == [ i \in 1..Len(FlatStops(rs)) |-> FlatStops(rs)[i].location ]

\* ------------------------------------------- the render pass of one load
\* One entry of the pass: what it does, on which map, and whether the call
\* throws there.  kind/route/stop say which marker; n is used by fitBounds.
Op(op, kind, route, stop, map, throws) ==
  [op |-> op, kind |-> kind, route |-> route, stop |-> stop, map |-> map,
   n |-> 0, throws |-> throws]

\* new mapboxgl.Marker(el).setLngLat(coordinates).addTo(mapInstanceRef.current!)
MarkerThrows(loc, map) == LngLatThrows(loc) \/ map = NoMap

\* allStudentLocations.forEach: addStudentHomeMarker, bounds.extend
HomeOps(locs, map) ==
  LET One(i) == << Op("marker", "home", Null, i, map, MarkerThrows(locs[i], map)),
                   Op("extend", "home", Null, i, map, LngLatThrows(locs[i])) >>
      F[i \in 0..Len(locs)] == IF i = 0 THEN << >> ELSE F[i - 1] \o One(i)
  IN F[Len(locs)]

\* route.stops.forEach inside the route loop
StopOps(stops, index, map) ==
  LET One(i) ==
        IF IsValidLocation(stops[i].location)
        THEN << Op("marker", "stop", index, i, map,
                   MarkerThrows(stops[i].location, map)),
                Op("extend", "stop", index, i, map,
                   LngLatThrows(stops[i].location)) >>
        ELSE << Op("invalid", "stop", index, i, map, FALSE) >>
      F[i \in 0..Len(stops)] == IF i = 0 THEN << >> ELSE F[i - 1] \o One(i)
  IN F[Len(stops)]

\* RouteOps without bounds.extend(finalDestination)
RouteOpsSchoolNotExtended(route, index, map) ==
  LET first == IF Len(route.stops) > 0 THEN route.stops[1].location ELSE Undefined
  IN << Op("marker", "driver", index, 0, map, MarkerThrows(first, map)) >>
     \o StopOps(route.stops, index, map)
     \o << Op("marker", "school", index, 0, map, map = NoMap),
           Op("request", "line", index, 0, map, FALSE) >>
\* The body of validRoutes.forEach for the route at `index` (0-based): driver
\* marker at stops[0], stop markers, school marker, then the directions
\* request.  finalDestination is taken to be a well-formed pair.
RouteOps(route, index, map) ==
  LET first == IF Len(route.stops) > 0 THEN route.stops[1].location ELSE Undefined
  IN << Op("marker", "driver", index, 0, map, MarkerThrows(first, map)) >>
     \o StopOps(route.stops, index, map)
     \o << Op("marker", "school", index, 0, map, map = NoMap),
           Op("extend", "school", index, 0, map, FALSE),
           Op("request", "line", index, 0, map, FALSE) >>

AllRouteOps(rs, map) ==
  LET F[i \in 0..Len(rs)] ==
        IF i = 0 THEN << >> ELSE F[i - 1] \o RouteOps(rs[i], i - 1, map)
  IN F[Len(rs)]

\* How many of the operations are calls of `op`.
CountOp(ops, op) == Cardinality({ i \in 1..Len(ops) : ops[i].op = op })

\* mapInstanceRef.current?.fitBounds(bounds, ...): skipped without a map; on
\* bounds that were never extended the library may throw.
FitOps(before, map, emptyFitThrows) ==
  IF map = NoMap THEN << >>
  ELSE << [ Op("fitBounds", "bounds", Null, 0, map,
               CountOp(before, "extend") = 0 /\ emptyFitThrows)
            EXCEPT !.n = CountOp(before, "extend") ] >>

\* Everything the pass would do if nothing threw.
PlannedOps(rs, map, emptyFitThrows) ==
  LET before == HomeOps(HomeLocations(rs), map) \o AllRouteOps(rs, map)
  IN before \o FitOps(before, map, emptyFitThrows)

\* The position of the first operation that throws (control goes to the
\* catch block there), 0 when none does.
FirstThrow(ops) ==
  IF \E i \in 1..Len(ops) : ops[i].throws
  THEN CHOOSE i \in 1..Len(ops) : ops[i].throws /\ \A j \in 1..(i - 1) : ~ops[j].throws
  ELSE 0

\* What the pass did: the planned operations up to the first one that throws.
ExecutedOps(ops) ==
  IF FirstThrow(ops) = 0 THEN ops ELSE SubSeq(ops, 1, FirstThrow(ops) - 1)

\* ------------------------------------------------------------------ state
VARIABLES
  lifecycle,               \* "new", "mounted" or "unmounted"
  mapInstanceRef,          \* mapInstanceRef.current: NoMap or a map id
  hasCleanup,              \* the last effect run returned the cleanup function
  mapsCreated,             \* how many times new mapboxgl.Map ran
  maps,                    \* per map instance: status, markers, layers, fitBounds calls
  routes,                  \* useState routes
  activeRouteId,           \* useState activeRouteId
  studentsRequiringWalk,   \* useState studentsRequiringWalk
  allStudentLocations,     \* useState allStudentLocations
  loadState,               \* per map: the fetchRoutesData call its 'load' event started
  lastResp,                \* what the route endpoint answered last
  lastPass,                \* the operations the last render pass executed, in order
  dirReq,                  \* per load: its fetchRouteDirections calls, by route
  alerts                   \* number of alert() calls

vars == << lifecycle, mapInstanceRef, hasCleanup, mapsCreated, maps, routes,
           activeRouteId, studentsRequiringWalk, allStudentLocations, loadState,
           lastResp, lastPass, dirReq, alerts >>

Flags(resp) == [net |-> resp.net, success |-> resp.success, isArray |-> resp.isArray]
\* A map that does not exist (yet, or any more): remove() takes the markers and
\* layers of a map with it.
EmptyMap(status) == [status |-> status, markers |-> << >>, layers |-> {}, fits |-> << >>]

Init ==
  /\ lifecycle = "new"
  /\ mapInstanceRef = NoMap
  /\ hasCleanup = FALSE
  /\ mapsCreated = 0
  /\ maps = [m \in MapIds |-> EmptyMap("none")]
  /\ routes = << >>
  /\ activeRouteId = Null
  /\ studentsRequiringWalk = << >>
  /\ allStudentLocations = << >>
  /\ loadState = [m \in MapIds |-> "idle"]
  /\ lastResp = [net |-> FALSE, success |-> FALSE, isArray |-> FALSE]
  /\ lastPass = << >>
  /\ dirReq = [m \in MapIds |-> << >>]
  /\ alerts = 0

\* ------------------------------------------------- map effect and cleanup
\* A cleanup that removes the map and leaves the ref alone
RefAfterCleanupKept(ref) == ref
\* mapInstanceRef.current = null
RefAfterCleanup(ref) == NoMap

\* The cleanup function: remove() the current map, then clear the ref.
CleanupMaps(ms, ref) ==
  IF ref # NoMap THEN [ms EXCEPT ![ref] = EmptyMap("removed")] ELSE ms
CleanupRef(ref) == IF ref # NoMap THEN RefAfterCleanup(ref) ELSE ref

\* The effect body, run with the ref it finds: create a map when the ref is
\* empty (and return the cleanup), do nothing otherwise.
EffectCreates(ref) == ref = NoMap
EffectRef(ref, created) == IF EffectCreates(ref) THEN created + 1 ELSE ref
EffectMaps(ms, ref, created) ==
  IF EffectCreates(ref) THEN [ms EXCEPT ![created + 1] = EmptyMap("init")] ELSE ms
EffectCount(ref, created) == IF EffectCreates(ref) THEN created + 1 ELSE created

\* First render: the effect runs once after mount.
Mount ==
  /\ lifecycle = "new"
  /\ lifecycle' = "mounted"
  /\ mapInstanceRef' = EffectRef(mapInstanceRef, mapsCreated)
  /\ maps' = EffectMaps(maps, mapInstanceRef, mapsCreated)
  /\ mapsCreated' = EffectCount(mapInstanceRef, mapsCreated)
  /\ hasCleanup' = EffectCreates(mapInstanceRef)
  /\ UNCHANGED << routes, activeRouteId, studentsRequiringWalk, allStudentLocations,
                  loadState, lastResp, lastPass, dirReq, alerts >>

\* center or zoom changed: React runs the previous cleanup, then the effect.
PropChange ==
  /\ lifecycle = "mounted"
  /\ mapsCreated < MaxMaps
  /\ LET ref1 == IF hasCleanup THEN CleanupRef(mapInstanceRef) ELSE mapInstanceRef
         maps1 == IF hasCleanup THEN CleanupMaps(maps, mapInstanceRef) ELSE maps
     IN /\ mapInstanceRef' = EffectRef(ref1, mapsCreated)
        /\ maps' = EffectMaps(maps1, ref1, mapsCreated)
        /\ mapsCreated' = EffectCount(ref1, mapsCreated)
        /\ hasCleanup' = EffectCreates(ref1)
  /\ UNCHANGED << lifecycle, routes, activeRouteId, studentsRequiringWalk,
                  allStudentLocations, loadState, lastResp, lastPass, dirReq,
                  alerts >>

\* The component is unmounted: React runs the cleanup.
Unmount ==
  /\ lifecycle = "mounted"
  /\ lifecycle' = "unmounted"
  /\ mapInstanceRef' = IF hasCleanup THEN CleanupRef(mapInstanceRef) ELSE mapInstanceRef
  /\ maps' = IF hasCleanup THEN CleanupMaps(maps, mapInstanceRef) ELSE maps
  /\ hasCleanup' = FALSE
  /\ UNCHANGED << mapsCreated, routes, activeRouteId, studentsRequiringWalk,
                  allStudentLocations, loadState, lastResp, lastPass, dirReq,
                  alerts >>

\* The map's 'load' event: fetchRoutesData() runs up to its first await.
MapLoad(m) ==
  /\ maps[m].status = "init"
  /\ maps' = [maps EXCEPT ![m].status = "loaded"]
  /\ loadState' = [loadState EXCEPT ![m] = "pending"]
  /\ UNCHANGED << lifecycle, mapInstanceRef, hasCleanup, mapsCreated, routes,
                  activeRouteId, studentsRequiringWalk, allStudentLocations,
                  lastResp, lastPass, dirReq, alerts >>

\* --------------------------------------------------------- fetchRoutesData
\* The markers the executed operations put on the map, tagged with the load.
MarkersOf(ops, load) ==
  LET F[i \in 0..Len(ops)] ==
        IF i = 0 THEN << >>
        ELSE F[i - 1] \o (IF ops[i].op = "marker"
                          THEN << [kind |-> ops[i].kind, route |-> ops[i].route,
                                   stop |-> ops[i].stop, load |-> load] >>
                          ELSE << >>)
  IN F[Len(ops)]

\* The fitBounds calls among the executed operations: how many points the
\* bounds passed had been extended by.
FitsOf(ops) ==
  LET F[i \in 0..Len(ops)] ==
        IF i = 0 THEN << >>
        ELSE F[i - 1] \o (IF ops[i].op = "fitBounds" THEN << ops[i].n >> ELSE << >>)
  IN F[Len(ops)]

\* Whether fitBounds throws on bounds that were never extended is the
\* library's choice; it is only a choice when the pass gets that far with
\* empty bounds, which takes a payload without routes and a map.
EmptyFitChoices(resp, ref) ==
  IF FormatOK(resp) /\ resp.data = << >> /\ ref # NoMap THEN BOOLEAN ELSE { FALSE }

\* The response of the route endpoint arrives and the rest of
\* fetchRoutesData runs to its end: the format check, the state setters, the
\* render pass against whatever mapInstanceRef.current is now, and the catch
\* block when anything threw.
LoadRespond(l, resp, emptyFitThrows) ==
  /\ loadState[l] = "pending"
  /\ emptyFitThrows \in EmptyFitChoices(resp, mapInstanceRef)
  /\ lastResp' = Flags(resp)
  /\ IF ~FormatOK(resp)
     THEN /\ loadState' = [loadState EXCEPT ![l] = "failed"]
          /\ alerts' = alerts + 1
          /\ UNCHANGED << maps, routes, studentsRequiringWalk, allStudentLocations,
                          lastPass, dirReq >>
     ELSE LET planned == PlannedOps(resp.data, mapInstanceRef, emptyFitThrows)
              done == ExecutedOps(planned)
              threw == FirstThrow(planned) # 0
          IN /\ routes' = resp.data
             /\ studentsRequiringWalk' = WalkingStops(resp.data)
             /\ allStudentLocations' = HomeLocations(resp.data)
             /\ maps' = IF mapInstanceRef = NoMap THEN maps
                        ELSE [maps EXCEPT
                                ![mapInstanceRef].markers = @ \o MarkersOf(done, l),
                                ![mapInstanceRef].fits = @ \o FitsOf(done)]
             /\ dirReq' = [dirReq EXCEPT
                             ![l] = [i \in 1..CountOp(done, "request") |-> "pending"]]
             /\ lastPass' = done
             /\ loadState' = [loadState EXCEPT ![l] = IF threw THEN "threw" ELSE "done"]
             /\ alerts' = IF threw THEN alerts + 1 ELSE alerts
  /\ UNCHANGED << lifecycle, mapInstanceRef, hasCleanup, mapsCreated, activeRouteId >>

\* ---------------------------------------------------- fetchRouteDirections
\* Whether the map's style accepts addSource: it does once the map has fired
\* 'load'; before that the style may or may not be ready.
StyleReadyChoices(status) == IF status = "loaded" THEN { TRUE } ELSE BOOLEAN

HasLayer(m, index) == \E y \in maps[m].layers : y.index = index

\* addSource + addLayer for route-<index> / route-layer-<index>: the layer
\* starts at the default visibility.
NewLayer(index, color, load) ==
  [index |-> index, color |-> color, width |-> LineWidth,
   visibility |-> "visible", load |-> load]

\* How a finished request is remembered: the lookup gave a geometry or not.
Answered(outcome) == IF outcome = "ok" THEN "ok" ELSE "none"

\* The directions response for route i (1-based position, index i - 1) of
\* load l arrives and the rest of fetchRouteDirections runs.  An empty result
\* returns, a failure is caught; otherwise addSource and addLayer go to
\* mapInstanceRef.current: skipped by ?. when it is null, thrown (and caught)
\* when the style is not loaded or the source id is taken.
DirectionsRespond(l, i, outcome, styleReady) ==
  /\ i \in 1..Len(dirReq[l])
  /\ dirReq[l][i] = "pending"
  /\ dirReq' = [dirReq EXCEPT ![l][i] = Answered(outcome)]
  /\ IF outcome # "ok" \/ mapInstanceRef = NoMap
     THEN /\ styleReady
          /\ UNCHANGED maps
     ELSE /\ styleReady \in StyleReadyChoices(maps[mapInstanceRef].status)
          /\ IF ~styleReady \/ HasLayer(mapInstanceRef, i - 1)
             THEN UNCHANGED maps
             ELSE maps' = [maps EXCEPT ![mapInstanceRef].layers =
                             @ \cup { NewLayer(i - 1, getRouteColor(i - 1), l) }]
  /\ UNCHANGED << lifecycle, mapInstanceRef, hasCleanup, mapsCreated, routes,
                  activeRouteId, studentsRequiringWalk, allStudentLocations,
                  loadState, lastResp, lastPass, alerts >>

\* --------------------------------------------------------- handleRouteClick
\* The two visibility values swapped
VisibilityForInverted(index, routeIndex) == IF index = routeIndex THEN "none" ELSE "visible"
\* index === routeIndex ? 'visible' : 'none'
VisibilityFor(index, routeIndex) == IF index = routeIndex THEN "visible" ELSE "none"

\* routes.forEach over the rendered routes: every layer the map has for an
\* index of the list gets its visibility set.
LayersAfterClick(layers, nRoutes, routeIndex) ==
  { IF y.index \in 0..(nRoutes - 1)
    THEN [y EXCEPT !.visibility = VisibilityFor(y.index, routeIndex)]
    ELSE y : y \in layers }

\* A click on the sidebar row of route routeIndex.
RouteClick(routeIndex) ==
  /\ lifecycle = "mounted"
  /\ routeIndex \in 0..(Len(routes) - 1)
  /\ activeRouteId' = routeIndex
  /\ maps' = IF mapInstanceRef = NoMap THEN maps
             ELSE [maps EXCEPT ![mapInstanceRef].layers =
                     LayersAfterClick(@, Len(routes), routeIndex)]
  /\ UNCHANGED << lifecycle, mapInstanceRef, hasCleanup, mapsCreated, routes,
                  studentsRequiringWalk, allStudentLocations, loadState, lastResp,
                  lastPass, dirReq, alerts >>

\* ------------------------------------------------------------ specification
\* The longest route list among the payloads.
RouteIndexes == 0..1

Next ==
  \/ Mount
  \/ PropChange
  \/ Unmount
  \/ \E m \in MapIds : MapLoad(m)
  \/ \E l \in MapIds, resp \in Responses, e \in BOOLEAN : LoadRespond(l, resp, e)
  \/ \E l \in MapIds, k \in RouteIndexes, o \in DirectionsOutcomes, r \in BOOLEAN :
       DirectionsRespond(l, k + 1, o, r)
  \/ \E k \in RouteIndexes : RouteClick(k)

Spec == Init /\ [][Next]_vars

\* ===================================================================
\* Properties
\* ===================================================================
LayersOf(m) == maps[m].layers
Visible(m) == { y \in maps[m].layers : y.visibility = "visible" }
Hidden(m) == { y \in maps[m].layers : y.visibility = "none" }
CountKind(ms, kind) == Cardinality({ i \in 1..Len(ms) : ms[i].kind = kind })
\* The markers this step added to map m.
AddedMarkers(m) ==
  SubSeq(maps'[m].markers, Len(maps[m].markers) + 1, Len(maps'[m].markers))
\* This step is the end of load l's fetchRoutesData.
LoadFinishes(l) == loadState[l] = "pending" /\ loadState'[l] # "pending"
\* This step is the end of the fetchRouteDirections call for position i of load l.
DirectionsFinish(l, i) ==
  /\ i \in 1..Len(dirReq[l])
  /\ dirReq[l][i] = "pending"
  /\ Len(dirReq'[l]) = Len(dirReq[l])
  /\ dirReq'[l][i] # "pending"
\* This step is a sidebar click that changed something.
ClickStep ==
  /\ UNCHANGED << lifecycle, mapInstanceRef, loadState, dirReq >>
  /\ (activeRouteId' # activeRouteId \/ maps' # maps)
BadResponse(r) == ~(r.net /\ r.success /\ r.isArray)
\* A two-element pair without a NaN component, as the specification words it.
StructurallyValid(stop) ==
  Len(stop.location) = 2 /\ stop.location[1] # NaN /\ stop.location[2] # NaN
ValidStopCount(rs) ==
  Cardinality({ << r, k >> \in (1..Len(rs)) \X (1..3) :
                  k <= Len(rs[r].stops) /\ StructurallyValid(rs[r].stops[k]) })
StopCount(rs) ==
  Cardinality({ << r, k >> \in (1..Len(rs)) \X (1..3) : k <= Len(rs[r].stops) })
AllStopsValid(rs) == ValidStopCount(rs) = StopCount(rs)
WalkIds(rs) ==
  { rs[r].stops[k].student_id : << r, k >> \in
      { q \in (1..Len(rs)) \X (1..3) :
          q[2] <= Len(rs[q[1]].stops) /\ rs[q[1]].stops[q[2]].requires_walk } }

\* ------------------------------------------------------------------- C1
\* C1: right after a click on row k the active index is k and every line
\* layer of the current map is visible iff its index is k.
C1_SelectRouteExclusive ==
  [][ ClickStep =>
        /\ activeRouteId' \in RouteIndexes
        /\ \A y \in maps'[mapInstanceRef].layers :
             (y.visibility = "visible") <=> (y.index = activeRouteId') ]_vars

\* ------------------------------------------------------------------- C2
\* C2 as stated: before any click every layer is visible; once a route is
\* selected, a map that has line layers shows at least one of them, and only
\* the selected one.
C2_SelectedAlwaysExclusive ==
  /\ activeRouteId = Null => \A m \in MapIds : Hidden(m) = {}
  /\ (activeRouteId # Null /\ mapInstanceRef # NoMap /\ LayersOf(mapInstanceRef) # {}) =>
        /\ Visible(mapInstanceRef) # {}
        /\ \A y \in Visible(mapInstanceRef) : y.index = activeRouteId

\* C2 amended: before any click every layer is visible; once a route is
\* selected its layer is never a hidden one (every hidden layer of the current
\* map belongs to another route).
C2_SelectedNeverHidden ==
  /\ activeRouteId = Null => \A m \in MapIds : Hidden(m) = {}
  /\ mapInstanceRef # NoMap =>
        \A y \in Hidden(mapInstanceRef) : y.index # activeRouteId

\* A route is selected, its layer is shown and another layer is hidden.
C2_Witness ==
  /\ activeRouteId # Null
  /\ mapInstanceRef # NoMap
  /\ \E y \in Visible(mapInstanceRef) : y.index = activeRouteId
  /\ Hidden(mapInstanceRef) # {}

\* ------------------------------------------------------------------- C3
\* C3: a load whose response is a transport failure or lacks the success
\* flag or the array ends failed with exactly one alert and changes nothing
\* else: no marker, no layer, no fitBounds, no directions request, no change
\* to routes, walk list or home locations; and a failed load stays failed.
C3_FailedLoadAborts ==
  [][ \A l \in MapIds :
        /\ (LoadFinishes(l) /\ BadResponse(lastResp')) =>
              /\ loadState'[l] = "failed"
              /\ alerts' = alerts + 1
              /\ UNCHANGED << maps, dirReq, lastPass, routes, studentsRequiringWalk,
                              allStudentLocations >>
        /\ loadState[l] = "failed" => loadState'[l] = "failed" ]_vars

\* A load failed on a response that carries routes but no success flag, and
\* nothing was rendered or requested for it.
C3_Witness ==
  \E l \in MapIds :
    /\ loadState[l] = "failed"
    /\ lastResp.net /\ lastResp.isArray /\ ~lastResp.success
    /\ alerts = 1
    /\ maps[l].status = "loaded"
    /\ maps[l].markers = << >>

\* ------------------------------------------------------------------- C4
\* C4: in a render pass the driver, stop and school markers of a route come
\* before that route's directions request; and a line layer is only added
\* for a load whose pass placed the markers of every route and called
\* fitBounds, i.e. ran to its end.
C4_MarkersBeforeLines ==
  /\ \A j \in 1..Len(lastPass) :
       lastPass[j].op = "request" =>
         LET r == lastPass[j].route
             Placed(kind, k) ==
               \E i \in 1..(j - 1) :
                 /\ lastPass[i].op = "marker" /\ lastPass[i].kind = kind
                 /\ lastPass[i].route = r /\ lastPass[i].stop = k
         IN /\ Placed("driver", 0)
            /\ Placed("school", 0)
            /\ \A k \in 1..Len(routes[r + 1].stops) :
                 StructurallyValid(routes[r + 1].stops[k]) => Placed("stop", k)
  /\ \A m \in MapIds : \A y \in LayersOf(m) : loadState[y.load] = "done"

\* ------------------------------------------------------------------- C5
\* C5: the map is created once and removed once, and only on unmount.
C5_MapSingleton ==
  /\ mapsCreated <= 1
  /\ Cardinality({ m \in MapIds : maps[m].status = "removed" }) <= 1
  /\ (\E m \in MapIds : maps[m].status = "removed") => lifecycle = "unmounted"

\* ------------------------------------------------------------------- C6
\* C6: a removed map is never operated on again (it holds no marker, layer
\* or fitBounds call made after remove()), and the ref never names one.
C6_NoOpsOnDisposedMap ==
  /\ \A m \in MapIds : maps[m].status = "removed" => maps[m] = EmptyMap("removed")
  /\ mapInstanceRef # NoMap => maps[mapInstanceRef].status \in { "init", "loaded" }

\* A route load that was in flight at teardown completed afterwards: its
\* pass ran without a map and threw on its first marker.
C6_Witness ==
  \E l \in MapIds :
    /\ maps[l].status = "removed"
    /\ loadState[l] = "threw"
    /\ routes # << >>
    /\ lastPass = << >>
    /\ mapInstanceRef = NoMap

\* ------------------------------------------------------------------- C7
\* C7: a load rendered onto a map whose payload holds a structurally invalid
\* stop does not throw, and places one stop marker per valid stop.
C7_InvalidStopSkipped ==
  [][ \A l \in MapIds :
        ( /\ LoadFinishes(l)
          /\ ~BadResponse(lastResp')
          /\ mapInstanceRef # NoMap
          /\ ~AllStopsValid(routes') ) =>
            /\ loadState'[l] = "done"
            /\ CountKind(AddedMarkers(mapInstanceRef), "stop") = ValidStopCount(routes') ]_vars

\* ------------------------------------------------------------------- C8
\* What every end of a directions call has in common: no marker goes away,
\* no alert is raised, and a lookup without a geometry changes no map.
DirectionsContained(l, i) ==
  /\ alerts' = alerts
  /\ \A m \in MapIds : maps'[m].markers = maps[m].markers
  /\ dirReq'[l][i] = "none" => maps' = maps
\* Exactly one layer for index on map m, in the palette colour, width 4.
OneRouteLayer(ms, m, index) ==
  /\ Cardinality({ y \in ms[m].layers : y.index = index }) = 1
  /\ \A y \in ms[m].layers :
       y.index = index => y.color = colors[(index % 5) + 1] /\ y.width = 4

\* C8 as stated: a failed or empty lookup only omits its own line, and every
\* lookup that succeeds leaves its line layer on a map.
C8_EverySuccessAddsLine ==
  [][ \A l \in MapIds : \A i \in 1..2 :
        DirectionsFinish(l, i) =>
          /\ DirectionsContained(l, i)
          /\ dirReq'[l][i] = "ok" => \E m \in MapIds : OneRouteLayer(maps', m, i - 1) ]_vars

\* C8 amended: a failed or empty lookup only omits its own line, and a
\* lookup that succeeds while the map its load ran on is still the current
\* map leaves exactly one line layer for its route there.
C8_SuccessOnOwnMapAddsLine ==
  [][ \A l \in MapIds : \A i \in 1..2 :
        DirectionsFinish(l, i) =>
          /\ DirectionsContained(l, i)
          /\ (dirReq'[l][i] = "ok" /\ mapInstanceRef = l) => OneRouteLayer(maps', l, i - 1) ]_vars

\* On the current map one lookup gave nothing and the other gave a line:
\* the line of the second route is there, the first has none, and the
\* markers of both routes stand.
C8_Witness ==
  \E l \in MapIds :
    /\ mapInstanceRef = l
    /\ Len(dirReq[l]) = 2
    /\ dirReq[l][1] = "none" /\ dirReq[l][2] = "ok"
    /\ { y.index : y \in LayersOf(l) } = { 1 }
    /\ \E i \in 1..Len(maps[l].markers) : maps[l].markers[i].route = 0
    /\ alerts = 0

\* ------------------------------------------------------------------- C9
\* What a completed load of an all-valid payload leaves, given the number of
\* points its fitBounds call must cover.
LoadTotals(fitPoints) ==
  /\ CountKind(AddedMarkers(mapInstanceRef), "home") = StopCount(routes')
  /\ CountKind(AddedMarkers(mapInstanceRef), "driver") = Len(routes')
  /\ CountKind(AddedMarkers(mapInstanceRef), "stop") = StopCount(routes')
  /\ CountKind(AddedMarkers(mapInstanceRef), "school") = Len(routes')
  /\ { studentsRequiringWalk'[i].student_id : i \in 1..Len(studentsRequiringWalk') }
       = WalkIds(routes')
  /\ Len(studentsRequiringWalk') = Cardinality(WalkIds(routes'))
  /\ \A a, b \in 1..Len(studentsRequiringWalk') :
       a < b => studentsRequiringWalk'[a].student_id < studentsRequiringWalk'[b].student_id
  /\ maps'[mapInstanceRef].fits = Append(maps[mapInstanceRef].fits, fitPoints)
CompletedValidLoad(l) ==
  /\ LoadFinishes(l)
  /\ loadState'[l] = "done"
  /\ mapInstanceRef # NoMap
  /\ AllStopsValid(routes')

\* C9 as stated: the bounds passed to fitBounds were extended once per
\* placed marker (home, driver, stop and school: 14 for the 3 + 2 payload).
C9_BoundsCoverEveryMarker ==
  [][ \A l \in MapIds :
        CompletedValidLoad(l) => LoadTotals(Len(AddedMarkers(mapInstanceRef))) ]_vars

\* C9 amended: the bounds were extended once per home, stop and school
\* marker, not for the driver marker (12 for the 3 + 2 payload).
C9_BoundsCoverHomeStopSchool ==
  [][ \A l \in MapIds :
        CompletedValidLoad(l) =>
          LoadTotals(2 * StopCount(routes') + Len(routes')) ]_vars

\* The 3 + 2 payload was loaded: 14 markers on the map, one walk-required
\* student, one fitBounds call over 12 points.
C9_Witness ==
  \E m \in MapIds :
    /\ routes = PayloadTwoRoutes
    /\ loadState[m] = "done"
    /\ Len(maps[m].markers) = 14
    /\ Len(studentsRequiringWalk) = 1
    /\ maps[m].fits = << 12 >>

\* ------------------------------------------------------------------ C10
\* C10: every line layer of a map was added by the load that map started,
\* and a map has at most one layer per route index.
C10_LayersOnOwnMap ==
  \A m \in MapIds :
    /\ \A y \in LayersOf(m) : y.load = m
    /\ \A y, z \in LayersOf(m) : y.index = z.index => y = z

====
